---------------------------- MODULE Spec2Model ----------------------------
(***************************************************************************)
(* Model of collect.py: the collection / filter / dedup / merge pipeline   *)
(* of the daily news collector.                                            *)
(*                                                                         *)
(* Python values are represented as follows.                               *)
(*   - a str is a sequence of one-character strings (so that lower(),      *)
(*     re.findall(r'\w+') and the `in` substring test can be computed);    *)
(*   - short labels (ids, importance, summaries, urls) are TLA+ strings;   *)
(*   - a key that is missing from a dict is the value Absent, the Python   *)
(*     value None is the value None;                                       *)
(*   - a list is a sequence; a dict with known keys is a record.           *)
(***************************************************************************)
EXTENDS Integers, Sequences, FiniteSets, TLC

VARIABLES
    pc,               \* control point of the code being executed
    articles,         \* the article list an operation is applied to (all_articles)
    since,            \* the cutoff instant handed to filter_by_date
    exclude,          \* the denylist handed to filter_excluded_keywords
    claude_result,    \* the value returned by analyze_with_claude
    ret,              \* the values returned so far by the function applied, in call order
    selected,         \* merge_results: first component of the returned pair
    excluded,         \* merge_results: second component of the returned pair
    exc,              \* the exception that propagated out of the code, or NoExc
    py311,            \* TRUE when the interpreter is Python 3.11 or later
    tid,              \* main: position in target_topics of the topic being collected
    qi,               \* collect_topic: position of the next keyword of the current list
    collected_topics, \* main: the topics whose collect_topic call has returned
    calls             \* collect_topic: the requests sent so far for the current topic
                      \* (source queries and connector calls), in the order sent

vars == <<pc, articles, since, exclude, claude_result, ret, selected, excluded,
          exc, py311, tid, qi, collected_topics, calls>>

\* the variables of main and of the fetch loops of collect_topic
run == <<tid, qi, collected_topics, calls>>

Absent == "<absent>"
None   == "<None>"
NoExc  == "<no exception>"

(***************************************************************************)
(* Bounds of the model.                                                    *)
(***************************************************************************)
MaxArticles == 3
MaxEntries == 2
MaxKeywords == 2
MaxItems == 1
NumTopics == 2
Now == 200000

(***************************************************************************)
(* Strings: str.lower(), \w, re.findall(r'\w+', s), substring test.        *)
(***************************************************************************)
UpperLetters == <<"A","B","C","D","E","F","G","H","I","J","K","L","M",
                  "N","O","P","Q","R","S","T","U","V","W","X","Y","Z">>
LowerLetters == <<"a","b","c","d","e","f","g","h","i","j","k","l","m",
                  "n","o","p","q","r","s","t","u","v","w","x","y","z">>
Digits == {"0","1","2","3","4","5","6","7","8","9"}

Range(s) == {s[i] : i \in DOMAIN s}

lower_char(c) ==
    IF \E i \in DOMAIN UpperLetters : UpperLetters[i] = c
    THEN LowerLetters[CHOOSE i \in DOMAIN UpperLetters : UpperLetters[i] = c]
    ELSE c

\* str.lower()
lower(s) == [i \in DOMAIN s |-> lower_char(s[i])]

\* the characters matched by \w (ASCII part)
IsWordChar(c) == c \in Range(UpperLetters) \cup Range(LowerLetters) \cup Digits \cup {"_"}

\* re.findall(r'\w+', s): the maximal runs of word characters, left to right
RECURSIVE findall_words(_, _, _, _)
findall_words(s, i, cur, acc) ==
    IF i > Len(s)
    THEN IF cur = <<>> THEN acc ELSE Append(acc, cur)
    ELSE IF IsWordChar(s[i])
         THEN findall_words(s, i + 1, Append(cur, s[i]), acc)
         ELSE findall_words(s, i + 1, <<>>,
                            IF cur = <<>> THEN acc ELSE Append(acc, cur))

\* kw in title: kw occurs in title as a contiguous substring
str_in(kw, title) ==
    \E i \in 0..(Len(title) - Len(kw)) : SubSeq(title, i + 1, i + Len(kw)) = kw

(***************************************************************************)
(* deduplicate                                                             *)
(***************************************************************************)
\* def tokenize(title): return set(re.findall(r'\w+', title.lower()))
tokenize(title) == Range(findall_words(lower(title), 1, <<>>, <<>>))

is_similar_ge(tokens, seen) ==
    LET intersection == tokens \cap seen
        union == tokens \cup seen
    IN  union # {} /\ 5 * Cardinality(intersection) >= 3 * Cardinality(union)

\* union and len(intersection) / len(union) > 0.6
\* (the quotient of two small integers exceeds the double 0.6 exactly when
\*  5 * len(intersection) > 3 * len(union))
is_similar(tokens, seen) ==
    LET intersection == tokens \cap seen
        union == tokens \cup seen
    IN  union # {} /\ 5 * Cardinality(intersection) > 3 * Cardinality(union)

\* the inner loop: for seen in seen_tokens: ... is_dup = True; break
is_dup(tokens, seen_tokens) ==
    \E k \in DOMAIN seen_tokens : is_similar(tokens, seen_tokens[k])

RECURSIVE dedup_loop_prev(_, _, _, _)
dedup_loop_prev(as, i, result, seen_tokens) ==
    IF i > Len(as) THEN result
    ELSE LET tokens == tokenize(as[i].title)
         IN  IF is_dup(tokens, seen_tokens)
             THEN dedup_loop_prev(as, i + 1, result, <<tokens>>)
             ELSE dedup_loop_prev(as, i + 1, Append(result, as[i]), <<tokens>>)

\* the outer loop of deduplicate from position i, with its two accumulators
RECURSIVE dedup_loop(_, _, _, _)
dedup_loop(as, i, result, seen_tokens) ==
    IF i > Len(as) THEN result
    ELSE LET tokens == tokenize(as[i].title)
         IN  IF is_dup(tokens, seen_tokens)
             THEN dedup_loop(as, i + 1, result, seen_tokens)
             ELSE dedup_loop(as, i + 1, Append(result, as[i]),
                             Append(seen_tokens, tokens))

deduplicate(as) == dedup_loop(as, 1, <<>>, <<>>)

(***************************************************************************)
(* Articles.  A published value is a date string, described by its format, *)
(* the wall-clock time it shows (seconds) and the UTC offset it shows.     *)
(***************************************************************************)
DateStr(fmt, local, off) == [fmt |-> fmt, local |-> local, off |-> off]

Article(title, url, published) ==
    [title |-> title, url |-> url, published |-> published,
     id |-> Absent, summary_ja |-> Absent, importance |-> Absent]

\* since = now - timedelta(hours=24)
Since == Now - 24 * 3600

(***************************************************************************)
(* filter_by_date                                                          *)
(***************************************************************************)
\* datetime.fromisoformat accepts what datetime.isoformat() writes; a trailing
\* "Z" is accepted from Python 3.11 on.
fromisoformat_parses(p, v311) ==
    \/ p.fmt \in {"iso_offset", "iso_naive"}
    \/ p.fmt = "iso_z" /\ v311

\* the instant of the parsed value, a naive one being taken as UTC
\* (pub.replace(tzinfo=timezone.utc))
instant(p) == IF p.fmt = "iso_offset" THEN p.local - p.off ELSE p.local

\* the body of the try block for one article: TRUE when it is appended
in_window(p, s, v311) == fromisoformat_parses(p, v311) /\ instant(p) >= s

\* the loop of filter_by_date.  a["published"] of a missing key raises KeyError
\* and an unparseable string raises ValueError, both caught; a value that is
\* not a str makes fromisoformat raise TypeError, which is not caught.
RECURSIVE date_loop(_, _, _, _, _)
date_loop(as, i, s, v311, result) ==
    IF i > Len(as) THEN [exc |-> NoExc, val |-> result]
    ELSE IF as[i].published.fmt = "none"
         THEN [exc |-> "TypeError", val |-> <<>>]
         ELSE date_loop(as, i + 1, s, v311,
                        IF in_window(as[i].published, s, v311)
                        THEN Append(result, as[i]) ELSE result)

filter_by_date(as, s, v311) == date_loop(as, 1, s, v311, <<>>)

(***************************************************************************)
(* filter_excluded_keywords                                                *)
(***************************************************************************)
title_hits_caseful(title, excl) ==
    \E k \in DOMAIN excl : str_in(excl[k], lower(title))

\* any(kw.lower() in title_lower for kw in exclude)
title_hits(title, excl) ==
    \E k \in DOMAIN excl : str_in(lower(excl[k]), lower(title))

RECURSIVE excluded_loop(_, _, _, _)
excluded_loop(as, i, excl, result) ==
    IF i > Len(as) THEN result
    ELSE excluded_loop(as, i + 1, excl,
                       IF ~ title_hits(as[i].title, excl)
                       THEN Append(result, as[i]) ELSE result)

filter_excluded_keywords(as, excl) ==
    IF excl = <<>> THEN as ELSE excluded_loop(as, 1, excl, <<>>)

(***************************************************************************)
(* call_claude / call_claude_api: id assignment                            *)
(***************************************************************************)
\* for i, a in enumerate(articles): a["id"] = str(i)
assign_ids(as) == [i \in DOMAIN as |-> [as[i] EXCEPT !.id = ToString(i - 1)]]

(***************************************************************************)
(* merge_results.  claude_result is None, or a dict whose "articles" key   *)
(* is missing or holds a list of entries; an entry is a dict whose keys    *)
(* id, summary_ja and importance may each be missing.                      *)
(***************************************************************************)
NoResult == [kind |-> "None", has_articles |-> FALSE, articles |-> <<>>]

\* claude_result and claude_result.get("articles")
has_accepted(cr) == cr.kind = "dict" /\ cr.has_articles /\ Len(cr.articles) > 0

\* rated = {a["id"]: a for a in claude_result["articles"]}: a later entry
\* replaces an earlier one of the same id
rated_ids(entries) == {entries[k].id : k \in DOMAIN entries}

rated_get(entries, id) ==
    entries[CHOOSE k \in DOMAIN entries :
               /\ entries[k].id = id
               /\ \A m \in DOMAIN entries : entries[m].id = id => m <= k]

dict_get(v, default) == IF v = Absent THEN default ELSE v

rate_no_default(a, e) ==
    [a EXCEPT !.summary_ja = dict_get(e.summary_ja, ""),
              !.importance = dict_get(e.importance, None)]

\* a["summary_ja"] = rated[a["id"]].get("summary_ja", "")
\* a["importance"] = rated[a["id"]].get("importance", "medium")
rate(a, e) ==
    [a EXCEPT !.summary_ja = dict_get(e.summary_ja, ""),
              !.importance = dict_get(e.importance, "medium")]

unrated_untouched(a) == a

\* a["summary_ja"] = ""; a["importance"] = None
unrated(a) == [a EXCEPT !.summary_ja = "", !.importance = None]

\* importance_order.get(a.get("importance"), 3)
importance_rank(imp) ==
    CASE imp = "high" -> 0
      [] imp = "medium" -> 1
      [] imp = "low" -> 2
      [] OTHER -> 3

sort_key(a) == importance_rank(a.importance)

\* list.sort(key=...) is stable: an element goes after every element already
\* placed whose key is not larger
insert_before_ties(sorted, a) ==
    LET n == Cardinality({k \in DOMAIN sorted : sort_key(sorted[k]) < sort_key(a)})
    IN  SubSeq(sorted, 1, n) \o <<a>> \o SubSeq(sorted, n + 1, Len(sorted))

insert_sorted(sorted, a) ==
    LET n == Cardinality({k \in DOMAIN sorted : sort_key(sorted[k]) <= sort_key(a)})
    IN  SubSeq(sorted, 1, n) \o <<a>> \o SubSeq(sorted, n + 1, Len(sorted))

RECURSIVE sort_loop(_, _, _)
sort_loop(as, i, sorted) ==
    IF i > Len(as) THEN sorted
    ELSE sort_loop(as, i + 1, insert_sorted(sorted, as[i]))

sort_by_importance(as) == sort_loop(as, 1, <<>>)

\* the loop of the rated branch, from position i, with both accumulators
RECURSIVE merge_loop(_, _, _, _, _)
merge_loop(as, i, entries, sel, excl) ==
    IF i > Len(as) THEN [selected |-> sel, excluded |-> excl]
    ELSE IF as[i].id \in rated_ids(entries)
         THEN merge_loop(as, i + 1, entries,
                         Append(sel, rate(as[i], rated_get(entries, as[i].id))), excl)
         ELSE merge_loop(as, i + 1, entries, sel, Append(excl, as[i]))

\* merge_results(articles, claude_result): the pair returned, or the
\* exception raised (a["id"] on an entry without id is a KeyError)
merge_results(as, cr) ==
    IF has_accepted(cr)
    THEN IF \E k \in DOMAIN cr.articles : cr.articles[k].id = Absent
         THEN [exc |-> "KeyError", selected |-> <<>>, excluded |-> <<>>]
         ELSE LET parts == merge_loop(as, 1, cr.articles, <<>>, <<>>)
              IN  [exc |-> NoExc,
                   selected |-> sort_by_importance(parts.selected),
                   excluded |-> parts.excluded]
    ELSE [exc |-> NoExc,
          selected |-> sort_by_importance([k \in DOMAIN as |-> unrated(as[k])]),
          excluded |-> <<>>]

(***************************************************************************)
(* Source adapters.  A source response is what one HTTP request returned:  *)
(* a failure (network error, timeout, payload that does not parse), or the *)
(* list of raw records of the payload.                                     *)
(***************************************************************************)
\* parse_rss_date: the four strptime formats; a value without offset is
\* taken as UTC.  Returns the aware datetime, or None.
parse_rss_date(d) ==
    IF d.fmt \in {"rfc822_offset", "iso_offset"}
    THEN [ok |-> TRUE, local |-> d.local, off |-> d.off]
    ELSE IF d.fmt \in {"rfc822_gmt", "iso_z"}
         THEN [ok |-> TRUE, local |-> d.local, off |-> 0]
         ELSE [ok |-> FALSE, local |-> 0, off |-> 0]

\* pub_date.isoformat() of an aware datetime
isoformat(dt) == DateStr("iso_offset", dt.local, dt.off)

\* item.findtext("title", "") and hit.get("title", ""): the text, or "" when
\* the record has none
text_or_empty(rec) == IF rec.has_title THEN rec.title ELSE <<>>

\* the body of the for loop of fetch_google_news_rss for one item
google_item(item, s) ==
    LET pub_date == parse_rss_date(item.pubDate)
    IN  IF ~ pub_date.ok \/ pub_date.local - pub_date.off < s
        THEN <<>>
        ELSE << Article(text_or_empty(item), dict_get(item.link, ""),
                        isoformat(pub_date)) >>

RECURSIVE google_loop(_, _, _, _)
google_loop(items, i, s, arts) ==
    IF i > Len(items) THEN arts
    ELSE google_loop(items, i + 1, s, arts \o google_item(items[i], s))

\* fetch_google_news_rss: any exception of the request or of the XML parse is
\* caught and the list built so far (empty) is returned
fetch_google_news_rss(resp, s) ==
    IF resp.failed THEN <<>> ELSE google_loop(resp.items, 1, s, <<>>)

HnItemUrl(hit) == "hn-item-" \o hit.objectID

\* hit.get("url") or f"https://news.ycombinator.com/item?id={hit['objectID']}"
hn_article_url(hit) == IF hit.url \in {Absent, None, ""} THEN HnItemUrl(hit) ELSE hit.url

\* hit.get("created_at", "")
hn_published(hit) ==
    IF hit.created_at.fmt = "absent" THEN DateStr("empty", 0, 0) ELSE hit.created_at

\* the loop over the hits of one query; hit['objectID'] of a hit without that
\* key raises KeyError, outside any try: when the url is computed (hit without
\* url) or when the article is built (hit whose url was not seen before)
RECURSIVE hn_hits_loop(_, _, _)
hn_hits_loop(hits, i, st) ==
    IF i > Len(hits) \/ st.exc # NoExc THEN st
    ELSE LET hit == hits[i]
             has_url == hit.url \notin {Absent, None, ""}
         IN  IF ~ has_url /\ hit.objectID = Absent
             THEN [st EXCEPT !.exc = "KeyError"]
             ELSE IF hn_article_url(hit) \in st.seen_urls
                  THEN hn_hits_loop(hits, i + 1, st)
                  ELSE IF hit.objectID = Absent
                       THEN [st EXCEPT !.exc = "KeyError"]
                       ELSE hn_hits_loop(hits, i + 1,
                              [st EXCEPT
                                 !.seen_urls = @ \cup {hn_article_url(hit)},
                                 !.articles = Append(@,
                                    Article(text_or_empty(hit), hn_article_url(hit),
                                            hn_published(hit)))])

\* one request sent: the source, the position of the query in its list,
\* whether the request failed, and the articles the query contributed
Call(src, q, failed, arts) == [src |-> src, q |-> q, failed |-> failed, arts |-> arts]

\* the articles appended to the list since it was `before`
Added(before, after) == SubSeq(after, Len(before) + 1, Len(after))

hn_query_retry(resp, q, st) ==
    IF resp.failed
    THEN [st EXCEPT !.calls = Append(Append(@, Call("hn", q, TRUE, <<>>)),
                                     Call("hn", q, TRUE, <<>>))]
    ELSE LET after == hn_hits_loop(resp.items, 1, st)
         IN  [after EXCEPT
                !.calls = Append(@, Call("hn", q, FALSE,
                                         Added(st.articles, after.articles)))]

\* one iteration of the loop over the queries: urlopen is called once; a
\* failed request is logged and skipped (continue), else the hits are read
hn_query(resp, q, st) ==
    IF resp.failed
    THEN [st EXCEPT !.calls = Append(@, Call("hn", q, TRUE, <<>>))]
    ELSE LET after == hn_hits_loop(resp.items, 1, st)
         IN  [after EXCEPT
                !.calls = Append(@, Call("hn", q, FALSE,
                                         Added(st.articles, after.articles)))]

\* the loop over the queries
RECURSIVE hn_queries_loop(_, _, _)
hn_queries_loop(resps, q, st) ==
    IF q > Len(resps) \/ st.exc # NoExc THEN st
    ELSE hn_queries_loop(resps, q + 1, hn_query(resps[q], q, st))

\* fetch_hackernews(queries, since_ts), resps[q] being the response to query q
fetch_hackernews(resps) ==
    hn_queries_loop(resps, 1,
        [exc |-> NoExc, seen_urls |-> {}, articles |-> <<>>, calls |-> <<>>])

(***************************************************************************)
(* Input sets.                                                             *)
(***************************************************************************)
SeqsUpTo(S, n) == UNION {[1..k -> S] : k \in 0..n}

NoDate == DateStr("absent", 0, 0)

\* main is not running: a function is applied on its own
NotRunning ==
    /\ tid = 0
    /\ qi = 0
    /\ collected_topics = <<>>
    /\ calls = <<>>

\* what the variables hold while the code that uses them is not running
Idle ==
    /\ since = Since
    /\ exclude = <<>>
    /\ claude_result = NoResult
    /\ ret = <<>>
    /\ selected = <<>>
    /\ excluded = <<>>
    /\ exc = NoExc

(***************************************************************************)
(* merge_results applied to the id-tagged list it is called with           *)
(***************************************************************************)
NewsTitle == <<"n","e","w","s">>

\* the n articles handed to the connector, ids assigned by call_claude
MergeInput(n) ==
    assign_ids([i \in 1..n |-> Article(NewsTitle, "u" \o ToString(i), NoDate)])

EntryIds == {"0", "1", "2", "9", Absent}
EntrySummaries == {"summary", Absent}
EntryImportances == {"high", "medium", "low", "critical", None, Absent}

Entries == [id : EntryIds, summary_ja : EntrySummaries, importance : EntryImportances]

Responses ==
    {NoResult, [kind |-> "dict", has_articles |-> FALSE, articles |-> <<>>]}
    \cup {[kind |-> "dict", has_articles |-> TRUE, articles |-> es] :
            es \in SeqsUpTo(Entries, MaxEntries)}

InitMerge ==
    /\ pc = "merge"
    /\ py311 = TRUE
    /\ NotRunning
    /\ \E n \in 0..MaxArticles :
         /\ articles = MergeInput(n)
         \* collect_topic calls the connector only for a non-empty list
         /\ claude_result \in IF n = 0 THEN {NoResult} ELSE Responses
    /\ since = Since
    /\ exclude = <<>>
    /\ ret = <<>>
    /\ selected = <<>>
    /\ excluded = <<>>
    /\ exc = NoExc

MergeResults ==
    /\ pc = "merge"
    /\ LET r == merge_results(articles, claude_result)
       IN  /\ exc' = r.exc
           /\ selected' = r.selected
           /\ excluded' = r.excluded
           /\ pc' = IF r.exc = NoExc THEN "merged" ELSE "raised"
    /\ UNCHANGED <<articles, since, exclude, claude_result, ret, py311, run>>

NextMerge == MergeResults

SpecMerge == InitMerge /\ [][NextMerge]_vars

(***************************************************************************)
(* Claims about merge_results                                              *)
(***************************************************************************)
Accepted(a) == \E k \in DOMAIN claude_result.articles : claude_result.articles[k].id = a.id

\* the entry a dict built from the accepted list keeps for the id of a
EntryOf(a) ==
    LET es == claude_result.articles
        last == CHOOSE k \in DOMAIN es :
                  es[k].id = a.id /\ \A m \in DOMAIN es : m > k => es[m].id # a.id
    IN  es[last]

Occurrences(list, a) == Cardinality({k \in DOMAIN list : list[k].id = a.id})

\* C1: on the normal path (a response with a non-empty accepted list) an
\* input article is in selected exactly when its id is the id of an accepted
\* entry and otherwise in excluded, each article in exactly one of the two
\* lists; a selected article carries the summary and importance of its entry
\* (importance "medium" when the entry omits it), an excluded one is unchanged
\* and has no summary or importance field.
C1_NormalPathPartition ==
    (pc = "merged" /\ has_accepted(claude_result)) =>
        /\ Len(selected) + Len(excluded) = Len(articles)
        /\ \A i \in DOMAIN articles :
             LET a == articles[i]
             IN  IF Accepted(a)
                 THEN /\ Occurrences(selected, a) = 1
                      /\ Occurrences(excluded, a) = 0
                      /\ \E j \in DOMAIN selected :
                           /\ selected[j].id = a.id
                           /\ selected[j].title = a.title
                           /\ selected[j].url = a.url
                           /\ selected[j].summary_ja =
                                (IF EntryOf(a).summary_ja = Absent THEN ""
                                 ELSE EntryOf(a).summary_ja)
                           /\ selected[j].importance =
                                (IF EntryOf(a).importance = Absent THEN "medium"
                                 ELSE EntryOf(a).importance)
                 ELSE /\ Occurrences(selected, a) = 0
                      /\ Occurrences(excluded, a) = 1
                      /\ \E j \in DOMAIN excluded : excluded[j] = a
                      /\ a.summary_ja = Absent /\ a.importance = Absent

\* C1 witness: a merge on the normal path that selected an article whose entry
\* omitted the importance and excluded another article
C1_Witness ==
    /\ pc = "merged" /\ has_accepted(claude_result)
    /\ Len(excluded) >= 1
    /\ \E j \in DOMAIN selected :
         EntryOf(selected[j]).importance = Absent /\ selected[j].importance = "medium"

\* C2: when the connector result is None or names no accepted entry, selected
\* is the whole input list in its original order, each article with an empty
\* summary and importance None, and excluded is empty.
C2_Fallback ==
    (pc = "merged" /\ ~ has_accepted(claude_result)) =>
        /\ excluded = <<>>
        /\ Len(selected) = Len(articles)
        /\ \A i \in DOMAIN articles :
             selected[i] = [articles[i] EXCEPT !.summary_ja = "", !.importance = None]

\* C2 witness: the fallback taken for a None result over several articles
C2_Witness ==
    /\ pc = "merged" /\ claude_result = NoResult
    /\ Len(articles) >= 2 /\ Len(selected) = Len(articles)

C3_Rank(imp) ==
    IF imp = "high" THEN 0 ELSE IF imp = "medium" THEN 1 ELSE IF imp = "low" THEN 2 ELSE 3

PositionOf(a) == CHOOSE i \in DOMAIN articles : articles[i].id = a.id

\* C3: the selected list returned is ordered by importance rank (high 0,
\* medium 1, low 2, anything else 3), and two articles of equal rank are in
\* the relative order they had in the input list.
C3_StableSortByImportance ==
    (pc = "merged") =>
        \A i, j \in DOMAIN selected :
            i < j =>
              /\ C3_Rank(selected[i].importance) <= C3_Rank(selected[j].importance)
              /\ C3_Rank(selected[i].importance) = C3_Rank(selected[j].importance)
                   => PositionOf(selected[i]) < PositionOf(selected[j])

\* C3 witness: a returned list in which the sort moved a later input article
\* of higher importance ahead of an earlier one
C3_Witness ==
    /\ pc = "merged" /\ Len(selected) >= 2
    /\ selected[1].importance = "high" /\ selected[2].importance = "low"
    /\ PositionOf(selected[1]) > PositionOf(selected[2])

\* C4: every article of the returned selected list has importance high,
\* medium, low or None.
C4_ImportanceInLabels ==
    (pc = "merged") =>
        \A j \in DOMAIN selected :
            selected[j].importance \in {"high", "medium", "low", None}

(***************************************************************************)
(* deduplicate applied to a list of articles, and again to its own output  *)
(***************************************************************************)
DedupTitles ==
    { <<"a"," ","b"," ","c"," ","d">>,
      <<"A"," ","b",","," ","c"," ","e">>,
      <<"A"," ","B"," ","C"," ","D","!">>,
      <<"a"," ","b"," ","c">>,
      <<"B"," ","c">>,
      <<"b"," ","c"," ","d">>,
      <<"!","?">>,
      <<>> }

\* the articles of the given titles, in that order, each with its own url
DedupInput(titles) ==
    [i \in DOMAIN titles |-> Article(titles[i], "u" \o ToString(i), NoDate)]

InitDedup ==
    /\ pc = "deduplicate"
    /\ py311 = TRUE
    /\ NotRunning
    /\ \E titles \in SeqsUpTo(DedupTitles, MaxArticles) : articles = DedupInput(titles)
    /\ Idle

\* all_articles = deduplicate(all_articles), then the same on what it returned
Deduplicate ==
    /\ pc = "deduplicate"
    /\ ret = <<>>
    /\ ret' = <<deduplicate(articles)>>
    /\ UNCHANGED <<pc, articles, since, exclude, claude_result, selected, excluded,
                   exc, py311, run>>

DeduplicateAgain ==
    /\ pc = "deduplicate"
    /\ Len(ret) = 1
    /\ ret' = Append(ret, deduplicate(ret[1]))
    /\ UNCHANGED <<pc, articles, since, exclude, claude_result, selected, excluded,
                   exc, py311, run>>

NextDedup == Deduplicate \/ DeduplicateAgain

SpecDedup == InitDedup /\ [][NextDedup]_vars

(***************************************************************************)
(* Claims about deduplicate                                                *)
(***************************************************************************)
\* Jaccard similarity of the two token sets above 0.6 (0 when both are empty)
C5_Above(t1, t2) ==
    LET T == tokenize(t1)
        S == tokenize(t2)
    IN  5 * Cardinality(T \cap S) > 3 * Cardinality(T \cup S)

\* kept[i]: article i is not above 0.6 with any earlier kept article
C5_Kept ==
    LET kept[i \in DOMAIN articles] ==
            \A j \in 1..(i - 1) : kept[j] => ~ C5_Above(articles[j].title, articles[i].title)
    IN  kept

C5_KeptIndices == {i \in DOMAIN articles : C5_Kept[i]}

\* C5: deduplicate keeps an article exactly when its title token set has
\* Jaccard similarity at most 0.6 with that of every previously kept article;
\* the output is the kept articles in input order, starts with the first
\* input article, holds no two articles above 0.6, and every dropped article
\* has an earlier kept article above 0.6.
C5_GreedyDedup ==
    (pc = "deduplicate" /\ Len(ret) >= 1) =>
        LET out == ret[1]
            K == C5_KeptIndices
        IN  /\ Len(out) = Cardinality(K)
            /\ \A i \in K : out[Cardinality({j \in K : j <= i})] = articles[i]
            /\ articles # <<>> => out # <<>> /\ out[1] = articles[1]
            /\ \A p, q \in DOMAIN out :
                 p < q => ~ C5_Above(out[p].title, out[q].title)
            /\ \A i \in DOMAIN articles \ K :
                 \E j \in K : j < i /\ C5_Above(articles[j].title, articles[i].title)

\* C5 witness: an input whose second article was dropped as a duplicate of
\* the first, and whose third article was kept although it is above 0.6 with
\* the dropped one, its similarity with the first being exactly 0.6
C5_Witness ==
    /\ pc = "deduplicate" /\ Len(ret) >= 1
    /\ Len(articles) = 3 /\ Len(ret[1]) = 2
    /\ ret[1][2] = articles[3]
    /\ C5_Above(articles[2].title, articles[3].title)
    /\ LET T == tokenize(articles[1].title)
           S == tokenize(articles[3].title)
       IN  5 * Cardinality(T \cap S) = 3 * Cardinality(T \cup S) /\ T # {}

\* C6: deduplicate applied to its own output returns that output.
C6_DedupIdempotent ==
    (pc = "deduplicate" /\ Len(ret) = 2) => ret[2] = ret[1]

\* C6 witness: a second application to an output from which the first
\* application had removed an article
C6_Witness ==
    /\ pc = "deduplicate" /\ Len(ret) = 2
    /\ Len(ret[1]) >= 2 /\ Len(ret[1]) < Len(articles)

(***************************************************************************)
(* filter_by_date applied to a list of articles, and again to its output   *)
(***************************************************************************)
JstOffset == 9 * 3600

\* published values around the cutoff: at it, one second before it, shown in
\* UTC, in JST and without offset; a "Z" form; strings that are not dates; a
\* missing key; None (a JSON null in a source payload)
PublishedPool ==
    { DateStr("iso_offset", Since, 0),
      DateStr("iso_offset", Since - 1, 0),
      DateStr("iso_offset", Since + JstOffset, JstOffset),
      DateStr("iso_offset", Since + JstOffset - 1, JstOffset),
      DateStr("iso_naive", Since, 0),
      DateStr("iso_naive", Since - 1, 0),
      DateStr("iso_z", Since + 1, 0),
      DateStr("garbage", 0, 0),
      DateStr("empty", 0, 0),
      DateStr("absent", 0, 0),
      DateStr("none", 0, 0) }

DateArticles == {Article(NewsTitle, "u1", p) : p \in PublishedPool}

InitDate ==
    /\ pc = "filter_by_date"
    /\ py311 \in BOOLEAN
    /\ NotRunning
    /\ articles \in SeqsUpTo(DateArticles, MaxArticles)
    /\ Idle

\* all_articles = filter_by_date(all_articles, since)
FilterByDate ==
    /\ pc = "filter_by_date"
    /\ ret = <<>>
    /\ LET r == filter_by_date(articles, since, py311)
       IN  IF r.exc = NoExc
           THEN ret' = <<r.val>> /\ UNCHANGED <<pc, exc>>
           ELSE pc' = "raised" /\ exc' = r.exc /\ UNCHANGED ret
    /\ UNCHANGED <<articles, since, exclude, claude_result, selected, excluded, py311, run>>

FilterByDateAgain ==
    /\ pc = "filter_by_date"
    /\ Len(ret) = 1
    /\ LET r == filter_by_date(ret[1], since, py311)
       IN  IF r.exc = NoExc
           THEN ret' = Append(ret, r.val) /\ UNCHANGED <<pc, exc>>
           ELSE pc' = "raised" /\ exc' = r.exc /\ UNCHANGED ret
    /\ UNCHANGED <<articles, since, exclude, claude_result, selected, excluded, py311, run>>

NextDate == FilterByDate \/ FilterByDateAgain

SpecDate == InitDate /\ [][NextDate]_vars

(***************************************************************************)
(* Claims about filter_by_date                                             *)
(***************************************************************************)
\* the published value is a timestamp that parses and is not before the cutoff
C7_Retained(a) ==
    /\ a.published.fmt \in {"iso_offset", "iso_naive"} \cup (IF py311 THEN {"iso_z"} ELSE {})
    /\ (IF a.published.fmt = "iso_offset"
        THEN a.published.local - a.published.off ELSE a.published.local) >= since

\* C7: filter_by_date never raises and returns exactly the input articles
\* whose published timestamp parses and is at or after the cutoff, in input
\* order (an article with a missing or unparseable published value is
\* removed); applying it again with the same cutoff changes nothing.
C7_DateFilter ==
    /\ exc = NoExc
    /\ (pc = "filter_by_date" /\ Len(ret) >= 1) => ret[1] = SelectSeq(articles, C7_Retained)
    /\ (pc = "filter_by_date" /\ Len(ret) = 2) => ret[2] = ret[1]

C7_IsStrOrMissing(a) == a.published.fmt # "none"

\* C7, restricted to lists in which every published value is a str or a
\* missing key: the same statement, which then holds.
C7_DateFilterOfStrings ==
    (\A i \in DOMAIN articles : C7_IsStrOrMissing(articles[i])) => C7_DateFilter

\* a run in which the filter kept the article at the cutoff, removed the one
\* a second earlier and the unparseable ones, and was applied twice
C7_WitnessOfStrings ==
    /\ pc = "filter_by_date" /\ Len(ret) = 2
    /\ \A i \in DOMAIN articles : C7_IsStrOrMissing(articles[i])
    /\ Len(articles) = 3 /\ Len(ret[1]) = 1
    /\ ret[1][1].published = DateStr("iso_offset", Since + JstOffset, JstOffset)
    /\ \E i \in DOMAIN articles :
         articles[i].published = DateStr("iso_offset", Since + JstOffset - 1, JstOffset)
    /\ \E i \in DOMAIN articles : articles[i].published.fmt \in {"garbage", "absent"}

(***************************************************************************)
(* filter_excluded_keywords applied to a list of articles                  *)
(***************************************************************************)
ExcludeTitles ==
    { <<"C","r","y","p","t","o"," ","u","p">>,
      <<"A","I"," ","u","p">>,
      <<"e","n","c","r","y","p","t","e","d">>,
      <<>> }

Keywords ==
    { <<"c","r","y","p","t">>,
      <<"A","i">>,
      <<"u","p","s">>,
      <<>> }

ExcludeArticles == {Article(t, "u1", NoDate) : t \in ExcludeTitles}

InitExclude ==
    /\ pc = "filter_excluded_keywords"
    /\ py311 = TRUE
    /\ NotRunning
    /\ articles \in SeqsUpTo(ExcludeArticles, MaxArticles)
    /\ exclude \in SeqsUpTo(Keywords, MaxKeywords)
    /\ since = Since
    /\ claude_result = NoResult
    /\ ret = <<>>
    /\ selected = <<>>
    /\ excluded = <<>>
    /\ exc = NoExc

\* all_articles = filter_excluded_keywords(all_articles, exclude_keywords)
FilterExcludedKeywords ==
    /\ pc = "filter_excluded_keywords"
    /\ ret = <<>>
    /\ ret' = <<filter_excluded_keywords(articles, exclude)>>
    /\ UNCHANGED <<pc, articles, since, exclude, claude_result, selected, excluded,
                   exc, py311, run>>

NextExclude == FilterExcludedKeywords

SpecExclude == InitExclude /\ [][NextExclude]_vars

(***************************************************************************)
(* Claims about filter_excluded_keywords                                   *)
(***************************************************************************)
\* s, lowercased, occurs in t, lowercased, at some position
C8_Contains(t, s) ==
    LET lt == lower(t)
        ls == lower(s)
    IN  \E i \in 1..(Len(lt) + 1) :
            \A k \in 1..Len(ls) : i + k - 1 <= Len(lt) /\ lt[i + k - 1] = ls[k]

C8_Clean(a) == \A k \in DOMAIN exclude : ~ C8_Contains(a.title, exclude[k])

\* C8: filter_excluded_keywords returns, in input order, exactly the articles
\* whose lowercased title contains none of the lowercased denylist terms as a
\* substring; with an empty denylist the output is the input.
C8_ExclusionFilter ==
    (pc = "filter_excluded_keywords" /\ Len(ret) = 1) =>
        /\ ret[1] = SelectSeq(articles, C8_Clean)
        /\ exclude = <<>> => ret[1] = articles

\* C8 witness: a denylist term in another case dropped one title, matched a
\* second title inside a word, and a title without the term was kept
C8_Witness ==
    /\ pc = "filter_excluded_keywords" /\ Len(ret) = 1
    /\ exclude = << <<"A","i">>, <<"c","r","y","p","t">> >>
    /\ Len(articles) = 3 /\ Len(ret[1]) = 1
    /\ articles[1].title = <<"C","r","y","p","t","o"," ","u","p">>
    /\ articles[2].title = <<>>
    /\ articles[3].title = <<"e","n","c","r","y","p","t","e","d">>
    /\ ret[1][1] = articles[2]

(***************************************************************************)
(* main and collect_topic: the topics of one invocation, one after another *)
(***************************************************************************)
CryptoTitle == <<"C","r","y","p","t","o"," ","u","p">>
AiTitle == <<"A","I"," ","u","p">>

\* topics[tid] of config.json: the number of keywords of each list, the number
\* of Hacker News queries (0: no api configured) and the denylist
TopicConfig(t) ==
    IF t % 2 = 1
    THEN [keywords_en |-> 1, keywords_ja |-> 0, hn_queries |-> 2,
          exclude_keywords |-> << <<"c","r","y","p","t">> >>]
    ELSE [keywords_en |-> 1, keywords_ja |-> 1, hn_queries |-> 0,
          exclude_keywords |-> <<>>]

RssItem(has_title, title, link, pubDate) ==
    [has_title |-> has_title, title |-> title, link |-> link, pubDate |-> pubDate]

\* <item> elements an RSS payload can hold: complete; without <title>; without
\* <link>; published a second before the cutoff; with a date that does not parse
RssItems ==
    { RssItem(TRUE, AiTitle, "g1", DateStr("rfc822_gmt", Since, 0)),
      RssItem(FALSE, <<>>, "g2", DateStr("rfc822_offset", Since + JstOffset, JstOffset)),
      RssItem(TRUE, CryptoTitle, Absent, DateStr("rfc822_gmt", Since + 1, 0)),
      RssItem(TRUE, AiTitle, "g3", DateStr("rfc822_gmt", Since - 1, 0)),
      RssItem(TRUE, AiTitle, "g4", DateStr("garbage", 0, 0)) }

HnHit(has_title, title, url, created_at, objectID) ==
    [has_title |-> has_title, title |-> title, url |-> url,
     created_at |-> created_at, objectID |-> objectID]

\* hits a search payload can hold: complete; without url; without title;
\* with a null created_at; without objectID
HnHits ==
    { HnHit(TRUE, AiTitle, "h1", DateStr("iso_z", Since + 2, 0), "1"),
      HnHit(TRUE, CryptoTitle, None, DateStr("iso_z", Since + 3, 0), "2"),
      HnHit(FALSE, <<>>, "h3", DateStr("iso_z", Since + 4, 0), "3"),
      HnHit(TRUE, AiTitle, "h4", DateStr("none", 0, 0), "4"),
      HnHit(TRUE, AiTitle, "h5", DateStr("iso_z", Since + 5, 0), Absent) }

SourceResponses(records) ==
    {[failed |-> TRUE, items |-> <<>>]}
    \cup {[failed |-> FALSE, items |-> items] : items \in SeqsUpTo(records, MaxItems)}

Entry(id, summary_ja, importance) ==
    [id |-> id, summary_ja |-> summary_ja, importance |-> importance]

\* what analyze_with_claude can return: None (timeout, missing binary, output
\* without a JSON object), or the parsed JSON object
ConnectorResults ==
    { NoResult,
      [kind |-> "dict", has_articles |-> TRUE, articles |-> <<>>],
      [kind |-> "dict", has_articles |-> TRUE,
       articles |-> << Entry("0", "summary", "high") >>],
      [kind |-> "dict", has_articles |-> TRUE,
       articles |-> << Entry("1", Absent, Absent), Entry("0", "summary", "low") >>],
      [kind |-> "dict", has_articles |-> TRUE,
       articles |-> << Entry("0", "summary", "critical") >>],
      [kind |-> "dict", has_articles |-> TRUE,
       articles |-> << Entry(Absent, "summary", "high") >>] }

Init ==
    /\ pc = "main"
    /\ py311 \in BOOLEAN
    /\ tid = 0
    /\ qi = 0
    /\ collected_topics = <<>>
    /\ calls = <<>>
    /\ articles = <<>>
    /\ Idle

\* the locals of collect_topic, gone when the call ends
LocalsGone ==
    /\ articles' = <<>>
    /\ exclude' = <<>>
    /\ claude_result' = NoResult
    /\ selected' = <<>>
    /\ excluded' = <<>>
    /\ qi' = 0
    /\ calls' = <<>>

\* an exception leaves collect_topic and main, which catch nothing
Raise(e) ==
    /\ pc' = "raised"
    /\ exc' = e
    /\ UNCHANGED <<articles, since, exclude, claude_result, ret, selected, excluded,
                   py311, run>>

\* for tid in target_topics: collect_topic(tid, topics[tid], args.date)
StartTopic ==
    /\ pc = "main"
    /\ tid < NumTopics
    /\ tid' = tid + 1
    /\ pc' = "fetch_en"
    /\ qi' = 1
    /\ articles' = <<>>
    /\ exclude' = TopicConfig(tid + 1).exclude_keywords
    /\ calls' = <<>>
    /\ UNCHANGED <<since, claude_result, ret, selected, excluded, exc, py311,
                   collected_topics>>

\* one iteration of: for kw in keywords_en: all_articles.extend(fetch_google_news_rss(...))
FetchGoogleNewsEn ==
    /\ pc = "fetch_en"
    /\ qi <= TopicConfig(tid).keywords_en
    /\ \E resp \in SourceResponses(RssItems) :
         LET arts == fetch_google_news_rss(resp, since)
         IN  /\ articles' = articles \o arts
             /\ calls' = Append(calls, Call("en", qi, resp.failed, arts))
    /\ qi' = qi + 1
    /\ UNCHANGED <<pc, since, exclude, claude_result, ret, selected, excluded, exc,
                   py311, tid, collected_topics>>

EndGoogleNewsEn ==
    /\ pc = "fetch_en"
    /\ qi > TopicConfig(tid).keywords_en
    /\ pc' = "fetch_ja"
    /\ qi' = 1
    /\ UNCHANGED <<articles, since, exclude, claude_result, ret, selected, excluded,
                   exc, py311, tid, collected_topics, calls>>

\* one iteration of: for kw in keywords_ja: ...
FetchGoogleNewsJa ==
    /\ pc = "fetch_ja"
    /\ qi <= TopicConfig(tid).keywords_ja
    /\ \E resp \in SourceResponses(RssItems) :
         LET arts == fetch_google_news_rss(resp, since)
         IN  /\ articles' = articles \o arts
             /\ calls' = Append(calls, Call("ja", qi, resp.failed, arts))
    /\ qi' = qi + 1
    /\ UNCHANGED <<pc, since, exclude, claude_result, ret, selected, excluded, exc,
                   py311, tid, collected_topics>>

EndGoogleNewsJa ==
    /\ pc = "fetch_ja"
    /\ qi > TopicConfig(tid).keywords_ja
    /\ pc' = "fetch_apis"
    /\ qi' = 1
    /\ UNCHANGED <<articles, since, exclude, claude_result, ret, selected, excluded,
                   exc, py311, tid, collected_topics, calls>>

\* for api in apis: all_articles.extend(fetch_hackernews(api["queries"], since_ts))
FetchHackerNews ==
    /\ pc = "fetch_apis"
    /\ TopicConfig(tid).hn_queries > 0
    /\ \E resps \in [1..TopicConfig(tid).hn_queries -> SourceResponses(HnHits)] :
         LET r == fetch_hackernews(resps)
         IN  /\ calls' = calls \o r.calls
             /\ IF r.exc # NoExc
                THEN /\ pc' = "raised"
                     /\ exc' = r.exc
                     /\ UNCHANGED articles
                ELSE /\ articles' = articles \o r.articles
                     /\ pc' = "filter_by_date"
                     /\ UNCHANGED exc
    /\ UNCHANGED <<since, exclude, claude_result, ret, selected, excluded, py311,
                   tid, qi, collected_topics>>

\* topic_config.get("apis", []) is empty
NoApis ==
    /\ pc = "fetch_apis"
    /\ TopicConfig(tid).hn_queries = 0
    /\ pc' = "filter_by_date"
    /\ UNCHANGED <<articles, since, exclude, claude_result, ret, selected, excluded,
                   exc, py311, run>>

\* all_articles = filter_by_date(all_articles, since)
CollectFilterByDate ==
    /\ pc = "filter_by_date"
    /\ LET r == filter_by_date(articles, since, py311)
       IN  IF r.exc # NoExc
           THEN Raise(r.exc)
           ELSE /\ articles' = r.val
                /\ pc' = "filter_excluded_keywords"
                /\ UNCHANGED <<since, exclude, claude_result, ret, selected, excluded,
                               exc, py311, run>>

\* all_articles = filter_excluded_keywords(all_articles, exclude_keywords)
CollectFilterExcluded ==
    /\ pc = "filter_excluded_keywords"
    /\ articles' = filter_excluded_keywords(articles, exclude)
    /\ pc' = "deduplicate"
    /\ UNCHANGED <<since, exclude, claude_result, ret, selected, excluded, exc,
                   py311, run>>

\* all_articles = deduplicate(all_articles)
CollectDeduplicate ==
    /\ pc = "deduplicate"
    /\ articles' = deduplicate(articles)
    /\ pc' = "analyze"
    /\ UNCHANGED <<since, exclude, claude_result, ret, selected, excluded, exc,
                   py311, run>>

\* if all_articles: claude_result = analyze_with_claude(all_articles, label)
\* (the ids are assigned by the call)
Analyze ==
    /\ pc = "analyze"
    /\ articles # <<>>
    /\ articles' = assign_ids(articles)
    /\ claude_result' \in ConnectorResults
    /\ calls' = Append(calls, Call("connector", 1, claude_result' = NoResult, <<>>))
    /\ pc' = "merge"
    /\ UNCHANGED <<since, exclude, ret, selected, excluded, exc, py311, tid, qi,
                   collected_topics>>

\* nothing left to analyze: claude_result stays None
NothingToAnalyze ==
    /\ pc = "analyze"
    /\ articles = <<>>
    /\ claude_result' = NoResult
    /\ pc' = "merge"
    /\ UNCHANGED <<articles, since, exclude, ret, selected, excluded, exc, py311, run>>

\* selected, excluded = merge_results(all_articles, claude_result)
CollectMerge ==
    /\ pc = "merge"
    /\ LET r == merge_results(articles, claude_result)
       IN  IF r.exc # NoExc
           THEN Raise(r.exc)
           ELSE /\ selected' = r.selected
                /\ excluded' = r.excluded
                /\ pc' = "report"
                /\ UNCHANGED <<articles, since, exclude, claude_result, ret, exc,
                               py311, run>>

\* the reports are written and collect_topic returns to the loop of main:
\* collected_topics.append(tid)
Report ==
    /\ pc = "report"
    /\ collected_topics' = Append(collected_topics, tid)
    /\ pc' = "main"
    /\ LocalsGone
    /\ UNCHANGED <<since, ret, exc, py311, tid>>

\* the loop of main is over
MainExit ==
    /\ pc = "main"
    /\ tid = NumTopics
    /\ pc' = "exit"
    /\ UNCHANGED <<articles, since, exclude, claude_result, ret, selected, excluded,
                   exc, py311, run>>

Next ==
    \/ StartTopic
    \/ FetchGoogleNewsEn
    \/ EndGoogleNewsEn
    \/ FetchGoogleNewsJa
    \/ EndGoogleNewsJa
    \/ FetchHackerNews
    \/ NoApis
    \/ CollectFilterByDate
    \/ CollectFilterExcluded
    \/ CollectDeduplicate
    \/ Analyze
    \/ NothingToAnalyze
    \/ CollectMerge
    \/ Report
    \/ MainExit

Spec == Init /\ [][Next]_vars

(***************************************************************************)
(* Claims about main and collect_topic                                     *)
(***************************************************************************)
\* C9: no failure inside the pipeline of one topic raises past collect_topic,
\* so when main ends every requested topic has been collected.
C9_FailuresLocalToTopic ==
    /\ exc = NoExc
    /\ pc \in {"exit", "raised"} => Len(collected_topics) = NumTopics

\* C10: every article of the collected list (all_articles, from the end of
\* the fetches on) has a non-empty title and a non-empty url.
C10_NoMalformedArticle ==
    (pc \in {"filter_by_date", "filter_excluded_keywords", "deduplicate", "analyze",
             "merge", "report"}) =>
        \A i \in DOMAIN articles : articles[i].title # <<>> /\ articles[i].url # ""

(***************************************************************************)
(* Claims about the requests of collect_topic                              *)
(***************************************************************************)
\* the source queries topics[t] configures
Configured(t) ==
    {<<"en", q>> : q \in 1..TopicConfig(t).keywords_en}
    \cup {<<"ja", q>> : q \in 1..TopicConfig(t).keywords_ja}
    \cup {<<"hn", q>> : q \in 1..TopicConfig(t).hn_queries}

\* how many times the request was sent for the current topic
CallsTo(src, q) ==
    Cardinality({k \in DOMAIN calls : calls[k].src = src /\ calls[k].q = q})

ConnectorCalls == CallsTo("connector", 1)

IdsPositional == \A i \in DOMAIN articles : articles[i].id = ToString(i - 1)

IdsUnassigned == \A i \in DOMAIN articles : articles[i].id = Absent

\* C11 as stated: when collect_topic has reached its merge, every configured
\* source query was attempted exactly once and the connector was called
\* exactly once, the ids being the positional ones that call assigned.
C11_ExactlyOnce ==
    (pc \in {"merge", "report"}) =>
        /\ \A c \in Configured(tid) : CallsTo(c[1], c[2]) = 1
        /\ ConnectorCalls = 1
        /\ IdsPositional

\* C11, amended: no source query and no connector call is ever sent twice;
\* when collect_topic has reached its merge every configured source query
\* was attempted exactly once, and the connector was called exactly once if
\* the deduplicated list is non-empty and not at all if it is empty; the ids
\* are unassigned until the connector call, which happens after
\* deduplication, and positional from then on.
C11_NoRetry ==
    /\ \A k \in DOMAIN calls :
         /\ CallsTo(calls[k].src, calls[k].q) = 1
         /\ calls[k].src = "connector" \/ <<calls[k].src, calls[k].q>> \in Configured(tid)
    /\ (pc \in {"merge", "report"}) =>
         /\ \A c \in Configured(tid) : CallsTo(c[1], c[2]) = 1
         /\ ConnectorCalls = (IF articles # <<>> THEN 1 ELSE 0)
    /\ (ConnectorCalls = 0) => IdsUnassigned
    /\ (ConnectorCalls = 1) =>
         /\ pc \in {"merge", "report", "raised"}
         /\ calls[Len(calls)].src = "connector"
         /\ articles # <<>> /\ IdsPositional

\* C11 witness: a topic with three source queries, one of which failed, whose
\* connector call failed too, has reached its report
C11_Witness ==
    /\ pc = "report"
    /\ Len(calls) = 4
    /\ \E k \in DOMAIN calls : calls[k].src = "hn" /\ calls[k].failed
    /\ calls[4].src = "connector" /\ calls[4].failed
    /\ Len(articles) >= 2

RECURSIVE ConcatArts(_, _)
ConcatArts(log, k) ==
    IF k > Len(log) THEN <<>> ELSE log[k].arts \o ConcatArts(log, k + 1)

\* the fetches were ended by an exception (KeyError of a hit without objectID)
FetchAborted == pc = "raised" /\ exc = "KeyError" /\ ConnectorCalls = 0

\* every configured query was attempted once, a failed one contributed no
\* article, and the collected list holds what the queries returned, in order
AllQueriesCollected ==
    /\ \A c \in Configured(tid) : CallsTo(c[1], c[2]) = 1
    /\ \A k \in DOMAIN calls : calls[k].failed => calls[k].arts = <<>>
    /\ articles = ConcatArts(calls, 1)

\* C12: a failure of one source query never aborts the collection of the
\* topic: the fetches always end with every configured query attempted, a
\* failed query having contributed no article and the articles of the other
\* queries all being in the collected list.
C12_SourceFailureContained ==
    /\ ~ FetchAborted
    /\ (pc = "filter_by_date") => AllQueriesCollected

\* C12, for the failures the adapters catch (the request or the parse of the
\* payload raised inside the try): when the fetches end, every configured
\* query was attempted, a failed one contributed no article and the articles
\* of the other queries are all in the collected list.
C12_CaughtFailuresContained ==
    (pc = "filter_by_date") => AllQueriesCollected

=============================================================================
